---- MODULE Spec2Model ----
(***************************************************************************)
(* Model of log-write-rs: the replay engine of src/log_writes.rs (Log),    *)
(* its I/O primitives (src/io.rs), the byte cursor (src/reader.rs) and the *)
(* driver of src/main.rs.                                                  *)
(*                                                                         *)
(* Files are byte sequences with a cursor.  A u64 that is used in          *)
(* arithmetic is an integer; the magic, which does not fit the model checker's   *)
(* integers, is kept as its two 32-bit little-endian halves.               *)
(***************************************************************************)
EXTENDS Integers, Sequences, FiniteSets, TLC

(* ------------------------------------------------------------------ *)
(* Bounds of the model                                                 *)
(* ------------------------------------------------------------------ *)
\* entries recorded in a log, and the entry count a header may declare
MaxEntries == 2
\* highest value of the flag words given to should_stop
MaxFlags == 31
\* highest --limit given to the driver
MaxLimit == 2
\* loop iterations of Log::discard that are followed
MaxIter == 3

(* ------------------------------------------------------------------ *)
(* Program constants                                                   *)
(* ------------------------------------------------------------------ *)
LOG_FLUSH_FLAG == 1
LOG_FUA_FLAG == 2
LOG_DISCARD_FLAG == 4
LOG_MARK_FLAG == 8
LOG_METADATA_FLAG == 16
LOG_IGNORE_DISCARD == 1
LOG_DISCARD_NOT_SUPP == 2
WRITE_LOG_VERSION == 1
\* 0x6a736677736872 as <<low 32 bits, high 32 bits>>
WRITE_LOG_MAGIC == <<2004052082, 6976358>>
\* src/reader.rs
U32_MEM_LEN == 4
U64_MEM_LEN == 8
\* size_of LogWriteSuper and of LogWriteEntry
SuperSize == 32
EntrySize == 32
\* max_zero_size set by Log::open, and max_chunk of Log::discard
DefaultMaxZeroSize == 128 * 1024 * 1024
max_chunk == 1 * 1024 * 1024 * 1024

(* ------------------------------------------------------------------ *)
(* Arithmetic helpers                                                  *)
(* ------------------------------------------------------------------ *)
min(a, b) == IF a < b THEN a ELSE b

RECURSIVE BitAnd(_, _)
BitAnd(a, b) ==
    IF a = 0 \/ b = 0 THEN 0
    ELSE (a % 2) * (b % 2) + 2 * BitAnd(a \div 2, b \div 2)

RECURSIVE BitOr(_, _)
BitOr(a, b) ==
    IF a = 0 THEN b
    ELSE IF b = 0 THEN a
    ELSE (IF a % 2 = 1 \/ b % 2 = 1 THEN 1 ELSE 0) + 2 * BitOr(a \div 2, b \div 2)

Zeros(n) == [i \in 1..n |-> 0]

(* ------------------------------------------------------------------ *)
(* On-disk format: little-endian encoding used to build the files      *)
(* ------------------------------------------------------------------ *)
RECURSIVE LeBytes(_, _)
LeBytes(v, n) ==
    IF n = 0 THEN <<>> ELSE <<v % 256>> \o LeBytes(v \div 256, n - 1)

U64Bytes(v) == LeBytes(v, 8)
MagicBytes(m) == LeBytes(m[1], 4) \o LeBytes(m[2], 4)

SuperBytes(magic, version, n, ss) ==
    MagicBytes(magic) \o U64Bytes(version) \o U64Bytes(n) \o Zeros(4) \o LeBytes(ss, 4)

EntryBytes(e) ==
    U64Bytes(e.sector) \o U64Bytes(e.nr_sectors) \o U64Bytes(e.flags) \o U64Bytes(e.data_len)

(* ------------------------------------------------------------------ *)
(* src/reader.rs: the byte cursor                                      *)
(* ------------------------------------------------------------------ *)
RECURSIVE from_le_bytes(_)
from_le_bytes(raw) ==
    IF raw = <<>> THEN 0 ELSE Head(raw) + 256 * from_le_bytes(Tail(raw))

\* read_exact into a zeroed array: the bytes at the cursor, or the zeros
\* left in place when fewer than n remain
read_exact(rdr, n) ==
    IF rdr.pos + n <= Len(rdr.buf)
    THEN [raw |-> SubSeq(rdr.buf, rdr.pos + 1, rdr.pos + n),
          rdr |-> [rdr EXCEPT !.pos = rdr.pos + n]]
    ELSE [raw |-> Zeros(n), rdr |-> [rdr EXCEPT !.pos = Len(rdr.buf)]]

Reader(buf) == [buf |-> buf, pos |-> 0]

read_u64_le(rdr) ==
    LET r == read_exact(rdr, U64_MEM_LEN) IN [val |-> from_le_bytes(r.raw), rdr |-> r.rdr]

read_u32_le(rdr) ==
    LET r == read_exact(rdr, U32_MEM_LEN) IN [val |-> from_le_bytes(r.raw), rdr |-> r.rdr]

\* a u64 as its two 32-bit halves <<low, high>>
read_u64_le_halves(rdr) ==
    LET r == read_exact(rdr, U64_MEM_LEN)
    IN [val |-> <<from_le_bytes(SubSeq(r.raw, 1, 4)), from_le_bytes(SubSeq(r.raw, 5, 8))>>,
        rdr |-> r.rdr]

skip(rdr, n) == [rdr EXCEPT !.pos = rdr.pos + n]

(* ------------------------------------------------------------------ *)
(* src/log_writes.rs: the format decoders                              *)
(* ------------------------------------------------------------------ *)
LogWriteSuper_from(buf) ==
    LET m  == read_u64_le_halves(Reader(buf))
        v  == read_u64_le(m.rdr)
        n  == read_u64_le(v.rdr)
        s  == read_u32_le(skip(n.rdr, 4))
    IN [magic |-> m.val, version |-> v.val, nr_entries |-> n.val, sector_size |-> s.val]

LogWriteEntry_from(buf) ==
    LET a == read_u64_le(Reader(buf))
        b == read_u64_le(a.rdr)
        c == read_u64_le(b.rdr)
        d == read_u64_le(c.rdr)
    IN [sector |-> a.val, nr_sectors |-> b.val, flags |-> c.val, data_len |-> d.val]

LogWriteEntry_default == [sector |-> 0, nr_sectors |-> 0, flags |-> 0, data_len |-> 0]

(* ------------------------------------------------------------------ *)
(* src/io.rs: the I/O primitives on a file [data, pos]                 *)
(* ------------------------------------------------------------------ *)
\* read(2) into a zeroed buffer of `count` bytes: as many bytes as the file
\* has left at its cursor, the rest of the buffer stays zero
io_read(file, count) ==
    LET n == min(count, IF Len(file.data) > file.pos THEN Len(file.data) - file.pos ELSE 0)
    IN [ret |-> n,
        buf |-> SubSeq(file.data, file.pos + 1, file.pos + n) \o Zeros(count - n),
        file |-> [file EXCEPT !.pos = file.pos + n]]

\* pwrite(2): the whole buffer at `offset`, the file growing (zero-filled gap)
\* when the write ends past its end; the cursor is not moved
io_pwrite(file, buf, offset) ==
    LET end == offset + Len(buf)
        len == IF Len(buf) = 0 THEN Len(file.data)
               ELSE IF end > Len(file.data) THEN end ELSE Len(file.data)
    IN [ret |-> Len(buf),
        file |-> [file EXCEPT !.data =
                    [i \in 1..len |->
                        IF i > offset /\ i <= end THEN buf[i - offset]
                        ELSE IF i <= Len(file.data) THEN file.data[i]
                        ELSE 0]]]

\* File::seek(SeekFrom::Current(n))
seek_current(file, n) == [file EXCEPT !.pos = file.pos + n]

(* ------------------------------------------------------------------ *)
(* State                                                               *)
(* ------------------------------------------------------------------ *)
VARIABLES
    log_file,       \* Log.log_file: [data, pos], the log stream and its cursor
    replay_file,    \* Log.replay_file: [data, pos], the target
    dev_discard,    \* whether the target accepts the BLKDISCARD ioctl
    flags,          \* Log.flags
    nr_entries,     \* Log.nr_entries
    sector_size,    \* Log.sector_size
    cur_entry,      \* Log.cur_entry
    max_zero_size,  \* Log.max_zero_size
    cur_pos,        \* Log.cur_pos
    pc,             \* "start", "open" (Log::open returned Ok), "failed", "hang"
    open_err,       \* "" | "io" | "format": the error Log::open returned
    log_super,      \* the LogWriteSuper decoded by Log::open
    trace,          \* counters of the I/O calls made so far
    call,           \* the last replay_next_entry call: arguments, result, state before
    run_limit,      \* main: --limit
    end_mark,       \* main: --end-mark ("" when not given)
    num_entries,    \* main: num_entries
    main_pc,        \* main: "args", "open", "loop", "done", "err", "panic"
    stop_reason,    \* main: why the loop was left: "" | "limit" | "mark" | "none"
    dis,            \* a call of Log::discard in progress
    ss,             \* a call of should_stop: arguments and result
    fts,            \* a call of entry_flags_to_str: arguments, buffer and stdout
    cat             \* a call of util::strncat: arguments and result

logVars == <<log_file, replay_file, dev_discard, flags, nr_entries, sector_size,
             cur_entry, max_zero_size, cur_pos, pc, open_err, log_super, trace, call>>
mainVars == <<run_limit, end_mark, num_entries, main_pc, stop_reason>>
vars == <<logVars, mainVars, dis, ss, fts, cat>>

\* the Log struct, as the methods see it (with the I/O counters)
Self ==
    [log_file |-> log_file, replay_file |-> replay_file, flags |-> flags,
     nr_entries |-> nr_entries, sector_size |-> sector_size, cur_entry |-> cur_entry,
     max_zero_size |-> max_zero_size, cur_pos |-> cur_pos, trace |-> trace]

NoTrace == [replay_reads |-> 0, replay_writes |-> 0, blkdiscard |-> 0, zero_range |-> 0]

(* ------------------------------------------------------------------ *)
(* src/log_writes.rs: discard and zero-fill                            *)
(* ------------------------------------------------------------------ *)
\* the BLKDISCARD ioctl on [start, start+len): -1 when the target cannot
\* discard, else 0 with the bytes of the range read back as zero
blkdiscard(file, start, len) ==
    IF dev_discard
    THEN [ret |-> 0,
          file |-> [file EXCEPT !.data =
                      [i \in 1..Len(file.data) |->
                          IF i > start /\ i <= start + len THEN 0 ELSE file.data[i]]]]
    ELSE [ret |-> -1, file |-> file]

discard_range(self, start, len) ==
    LET r == blkdiscard(self.replay_file, start, len)
        t == [self.trace EXCEPT !.blkdiscard = @ + 1]
    IN [ret |-> 0,
        self |-> [self EXCEPT !.replay_file = r.file, !.trace = t,
                              !.flags = IF r.ret < 0 THEN BitOr(@, LOG_DISCARD_NOT_SUPP) ELSE @]]

\* Vec::with_capacity(n): room for n bytes, no element
Vec_with_capacity(n) == <<>>

\* the while loop of zero_range
RECURSIVE zero_loop(_, _, _, _, _)
zero_loop(file, buf, start, len, bufsize) ==
    IF len > 0
    THEN LET w == io_pwrite(file, buf, start)
         IN IF w.ret # bufsize
            THEN [ret |-> -1, file |-> w.file, writes |-> 1]
            ELSE LET rest == zero_loop(w.file, buf, start + w.ret, len - w.ret, bufsize)
                 IN [rest EXCEPT !.writes = @ + 1]
    ELSE [ret |-> 0, file |-> file, writes |-> 0]

zero_range(self, start, len) ==
    LET t == [self.trace EXCEPT !.zero_range = @ + 1]
    IN IF self.max_zero_size < len
       THEN [ret |-> 0, self |-> [self EXCEPT !.trace = t]]
       ELSE LET buf == Vec_with_capacity(len)
                z == zero_loop(self.replay_file, buf, start, len, len)
            IN [ret |-> z.ret,
                self |-> [self EXCEPT !.replay_file = z.file,
                                      !.trace = [t EXCEPT !.replay_writes = @ + z.writes]]]

\* TryNative without the test of LOG_DISCARD_NOT_SUPP
TryNative_Always(fl) == TRUE

\* whether discard tries the native discard for a chunk
TryNative(fl) == BitAnd(fl, LOG_DISCARD_NOT_SUPP) <= 0

\* one iteration of the while loop of discard, for the chunk at `start`:
\* bail is TRUE when the iteration ends in bail!("Discard error")
discard_chunk(self, start, size) ==
    LET len == min(max_chunk, size)
        a == IF TryNative(self.flags)
             THEN discard_range(self, start, len)
             ELSE [ret |-> 0, self |-> self]
        b == IF BitAnd(a.self.flags, LOG_DISCARD_NOT_SUPP) > 0
             THEN zero_range(a.self, start, len)
             ELSE a
    IN [self |-> b.self, ret |-> b.ret, bail |-> b.ret > 0, len |-> len,
        native |-> TryNative(self.flags),
        zeroed |-> BitAnd(a.self.flags, LOG_DISCARD_NOT_SUPP) > 0]

discard_start(self, entry) == entry.sector * self.sector_size
discard_size(self, entry) == entry.nr_sectors * self.sector_size

\* the loop of discard: neither start nor size is changed by an iteration, so
\* it ends only by bail or with size = 0; "hang" after MaxIter iterations
RECURSIVE discard_loop(_, _, _, _)
discard_loop(self, start, size, fuel) ==
    IF size > 0
    THEN IF fuel = 0 THEN [res |-> "hang", self |-> self]
         ELSE LET c == discard_chunk(self, start, size)
              IN IF c.bail THEN [res |-> "Err", self |-> c.self]
                 ELSE discard_loop(c.self, start, size, fuel - 1)
    ELSE [res |-> "Ok", self |-> self]

discard(self, entry) ==
    IF BitAnd(self.flags, LOG_DISCARD_FLAG) # 0
    THEN [res |-> "Ok", self |-> self]
    ELSE discard_loop(self, discard_start(self, entry), discard_size(self, entry), MaxIter)

(* ------------------------------------------------------------------ *)
(* src/log_writes.rs: Log::open and Log::replay_next_entry             *)
(* ------------------------------------------------------------------ *)
\* the outcome of Log::open on the two files.  `read_ok` is the outcome of
\* io::read on replay_file, a descriptor opened with read(false): the kernel
\* refuses that read; the other outcome is kept so that the rest of open and
\* the session it builds are explored.
open(log, replay, read_ok) ==
    LET r == io_read(replay, SuperSize)
        sup == LogWriteSuper_from(r.buf)
        t == [NoTrace EXCEPT !.replay_reads = 1]
    IN IF ~read_ok
       THEN [res |-> "io", log_file |-> log, replay_file |-> replay,
             log_super |-> LogWriteSuper_from(Zeros(SuperSize)), trace |-> t]
       ELSE IF sup.magic = WRITE_LOG_MAGIC
       THEN [res |-> "format", log_file |-> log, replay_file |-> r.file,
             log_super |-> sup, trace |-> t]
       ELSE [res |-> "Ok", log_file |-> seek_current(log, SuperSize),
             replay_file |-> r.file, log_super |-> sup, trace |-> t]

\* Exhausted with the comparison off by one
Exhausted_OffByOne(cur, nr) == cur > nr

\* the test that ends replay_next_entry with Ok(None)
Exhausted(cur, nr) == cur >= nr

\* the count of decoded entries left as it was
bump_cur_entry_Skip(cur) == cur

\* self.cur_entry += 1, after a header was read
bump_cur_entry(cur) == cur + 1

\* read_size of replay_next_entry
ReadSize(self, read_data) == IF read_data THEN self.sector_size ELSE EntrySize

replay_next_entry(self, read_data) ==
    LET read_size == ReadSize(self, read_data)
        h == io_read(self.log_file, read_size)
        entry == LogWriteEntry_from(h.buf)
        size == entry.nr_sectors * self.sector_size
        lf == IF read_size < self.sector_size
              THEN seek_current(h.file, EntrySize) ELSE h.file
        s1 == [self EXCEPT !.log_file = lf, !.cur_entry = bump_cur_entry(@)]
    IN IF Exhausted(self.cur_entry, self.nr_entries)
       THEN [res |-> "None", entry |-> LogWriteEntry_default, self |-> self]
       ELSE IF h.ret # read_size
       THEN [res |-> "Err", entry |-> LogWriteEntry_default,
             self |-> [self EXCEPT !.log_file = h.file]]
       ELSE IF size > 0
       THEN [res |-> "Some", entry |-> entry, self |-> s1]
       ELSE IF BitAnd(entry.flags, LOG_DISCARD_FLAG) > 0
       THEN LET d == discard(s1, entry)
            IN [res |-> IF d.res = "hang" THEN "hang" ELSE "Some",
                entry |-> entry, self |-> d.self]
       ELSE LET buf == Vec_with_capacity(size)
                p == io_read(s1.log_file, Len(buf))
                offset == entry.sector * self.sector_size
                w == io_pwrite(s1.replay_file, buf, offset)
                s2 == [s1 EXCEPT !.log_file = p.file]
                s3 == [s2 EXCEPT !.replay_file = w.file,
                                 !.trace = [@ EXCEPT !.replay_writes = @ + 1]]
            IN IF p.ret # size
               THEN [res |-> "Err", entry |-> entry, self |-> s2]
               ELSE IF w.ret # size
               THEN [res |-> "Err", entry |-> entry, self |-> s3]
               ELSE [res |-> "Some", entry |-> entry, self |-> s3]

(* ------------------------------------------------------------------ *)
(* The files a session is opened on                                    *)
(* ------------------------------------------------------------------ *)
OtherMagic == <<2004052083, 6976358>>
SectorSizes == {0, 8, 32, 40}
\* sector size of the recorded log: one 8-byte word
LogSectorSize == U64_MEM_LEN
Sectors == {0, 1}
NrSectors == {0, 1}

\* the entries a log records: writes, discards and marks
Entries ==
    { [sector |-> s, nr_sectors |-> n, flags |-> f,
       data_len |-> IF f = LOG_DISCARD_FLAG THEN 0 ELSE n * LogSectorSize] :
         s \in Sectors, n \in NrSectors, f \in {0, LOG_DISCARD_FLAG} }
    \cup { [sector |-> 0, nr_sectors |-> 0, flags |-> LOG_MARK_FLAG, data_len |-> 0] }

\* the i-th payload byte: every 8-byte word of a payload is 0xAA, so that
\* each u64 the engine decodes from a log fits the model checker's integers
Payload(i) == IF i % 8 = 1 THEN 170 ELSE 0

\* an entry as recorded: its header, then its payload unless it is a discard
Recorded(e) ==
    EntryBytes(e) \o
    (IF BitAnd(e.flags, LOG_DISCARD_FLAG) > 0 THEN <<>>
     ELSE [i \in 1..(e.nr_sectors * LogSectorSize) |-> Payload(i)])

RECURSIVE RecordedAll(_)
RecordedAll(es) == IF es = <<>> THEN <<>> ELSE Recorded(Head(es)) \o RecordedAll(Tail(es))

EntrySeqs == UNION { [1..k -> Entries] : k \in 0..MaxEntries }

LogImage(es) ==
    SuperBytes(WRITE_LOG_MAGIC, WRITE_LOG_VERSION, Len(es), LogSectorSize) \o RecordedAll(es)

Logs == { LogImage(es) : es \in EntrySeqs }

\* the bytes of a target after its first 32
TargetTail == [i \in 1..8 |-> 255]

\* the targets: empty, one that starts with the log magic, and ones whose
\* first 32 bytes decode to each entry count and sector size
Targets ==
    { <<>> , SuperBytes(WRITE_LOG_MAGIC, WRITE_LOG_VERSION, 1, LogSectorSize) \o TargetTail }
    \cup { SuperBytes(OtherMagic, WRITE_LOG_VERSION, n, s) \o TargetTail :
             n \in 0..MaxEntries, s \in SectorSizes }

NoCall == [read_data |-> FALSE, res |-> "", prev_res |-> "", entry |-> LogWriteEntry_default,
           log_pos |-> 0, replay_data |-> <<>>, cur_entry |-> 0, self |-> <<>>]

NoDis == [pc |-> "idle", start |-> 0, size |-> 0, iter |-> 0, len |-> 0, ret |-> 0,
          native |-> FALSE, zeroed |-> FALSE, before |-> <<>>, prev |-> <<>>]
NoSs == [pc |-> "idle", flags |-> 0, cmd |-> "", stop_flags |-> 0, mark |-> "", ret |-> 0]
NoFts == [pc |-> "idle", flags |-> 0, buf0 |-> <<>>, buf |-> <<>>, stdout |-> <<>>]
NoCat == [pc |-> "idle", dest |-> <<>>, src |-> <<>>, n |-> 0, res |-> "", out |-> <<>>]

InitFiles ==
    /\ log_file \in { [data |-> d, pos |-> 0] : d \in Logs }
    /\ replay_file \in { [data |-> d, pos |-> 0] : d \in Targets }
    /\ dev_discard \in BOOLEAN

InitLog ==
    /\ InitFiles
    /\ flags = 0 /\ nr_entries = 0 /\ sector_size = 0 /\ cur_entry = 0
    /\ max_zero_size = 0 /\ cur_pos = 0
    /\ pc = "start" /\ open_err = ""
    /\ log_super = LogWriteSuper_from(Zeros(SuperSize))
    /\ trace = NoTrace
    /\ call = NoCall

IdleMain ==
    /\ run_limit = 0 /\ end_mark = "" /\ num_entries = 0
    /\ main_pc = "idle" /\ stop_reason = ""

Init == InitLog /\ IdleMain /\ dis = NoDis /\ ss = NoSs /\ fts = NoFts /\ cat = NoCat

(* ------------------------------------------------------------------ *)
(* Actions                                                             *)
(* ------------------------------------------------------------------ *)
\* the assignments of Log::open
DoOpen(read_ok) ==
    LET o == open(log_file, replay_file, read_ok)
    IN /\ log_file' = o.log_file
       /\ replay_file' = o.replay_file
       /\ log_super' = o.log_super
       /\ trace' = o.trace
       /\ open_err' = IF o.res = "Ok" THEN "" ELSE o.res
       /\ pc' = IF o.res = "Ok" THEN "open" ELSE "failed"
       /\ flags' = 0
       /\ nr_entries' = IF o.res = "Ok" THEN o.log_super.nr_entries ELSE 0
       /\ sector_size' = IF o.res = "Ok" THEN o.log_super.sector_size ELSE 0
       /\ cur_entry' = 0
       /\ max_zero_size' = IF o.res = "Ok" THEN DefaultMaxZeroSize ELSE 0
       /\ cur_pos' = 0
       /\ UNCHANGED <<dev_discard, call>>

\* the assignments of one replay_next_entry call, whose result is r
DoReplay(read_data, r) ==
    /\ log_file' = r.self.log_file
    /\ replay_file' = r.self.replay_file
    /\ flags' = r.self.flags
    /\ cur_entry' = r.self.cur_entry
    /\ trace' = r.self.trace
    /\ pc' = IF r.res = "hang" THEN "hang" ELSE pc
    /\ call' = [read_data |-> read_data, res |-> r.res, prev_res |-> call.res,
                entry |-> r.entry, log_pos |-> log_file.pos,
                replay_data |-> replay_file.data, cur_entry |-> cur_entry,
                self |-> <<flags, nr_entries, sector_size, max_zero_size, cur_pos>>]
    /\ UNCHANGED <<dev_discard, nr_entries, sector_size, max_zero_size, cur_pos,
                   open_err, log_super>>

Open ==
    /\ pc = "start"
    /\ \E read_ok \in BOOLEAN : DoOpen(read_ok)
    /\ UNCHANGED <<mainVars, dis, ss, fts, cat>>

ReplayNextEntry ==
    /\ pc = "open"
    /\ \E read_data \in BOOLEAN : DoReplay(read_data, replay_next_entry(Self, read_data))
    /\ UNCHANGED <<mainVars, dis, ss, fts, cat>>

Next == Open \/ ReplayNextEntry

Spec == Init /\ [][Next]_vars

(* ------------------------------------------------------------------ *)
(* Properties of Log::open and Log::replay_next_entry (Spec)           *)
(* ------------------------------------------------------------------ *)
\* the byte at offset i (from 0) of a file's data, -1 past its end
ByteAt(data, i) == IF i >= 0 /\ i < Len(data) THEN data[i + 1] ELSE -1

IsDiscard(e) == BitAnd(e.flags, LOG_DISCARD_FLAG) > 0
\* the byte range of the entry of the last call
CallOffset == call.entry.sector * sector_size
CallSize == call.entry.nr_sectors * sector_size
Returned == pc = "open" /\ call.res = "Some"

\* C1: whenever Log::open has decoded a header, it returned Ok exactly when the
\* decoded magic is WRITE_LOG_MAGIC; otherwise it failed with the format error,
\* with the log stream still at its start and nothing written to the target.
C1_OpenIffMagic ==
    (pc \in {"open", "failed"} /\ open_err # "io") =>
        /\ (pc = "open") <=> (log_super.magic = WRITE_LOG_MAGIC)
        /\ pc = "failed" =>
              /\ open_err = "format"
              /\ log_file.pos = 0
              /\ trace.replay_writes = 0

\* C2: after replay_next_entry(true) returned Some(entry) for an entry without
\* DISCARD and of positive size whose payload is in the log, the target holds
\* the payload bytes that follow the entry's 32-byte header in the entry's
\* byte range, and every other byte of the target is as before the call.
C2_WriteFidelity ==
    (/\ Returned /\ call.read_data /\ ~IsDiscard(call.entry) /\ CallSize > 0
     /\ call.log_pos + EntrySize + CallSize <= Len(log_file.data)) =>
        /\ \A i \in 0..(CallSize - 1) :
              ByteAt(replay_file.data, CallOffset + i)
                  = ByteAt(log_file.data, call.log_pos + EntrySize + i)
        /\ \A i \in 0..(Len(call.replay_data) - 1) :
              (i < CallOffset \/ i >= CallOffset + CallSize) =>
                  ByteAt(replay_file.data, i) = ByteAt(call.replay_data, i)

\* C3: after replay_next_entry returned Some(entry) for a DISCARD entry on a
\* target without native discard, every byte of the target in the entry's byte
\* range is zero.
C3_DiscardZeroes ==
    (Returned /\ IsDiscard(call.entry) /\ ~dev_discard) =>
        \A i \in 0..(CallSize - 1) :
            CallOffset + i < Len(replay_file.data) =>
                ByteAt(replay_file.data, CallOffset + i) = 0

\* C4: a replay_next_entry call that returned Some(entry) for a DISCARD entry
\* moved the log cursor by exactly the 32 bytes of the entry header.
C4_DiscardConsumesHeaderOnly ==
    (Returned /\ IsDiscard(call.entry)) => log_file.pos = call.log_pos + EntrySize

\* C5: once cur_entry equals nr_entries, a replay_next_entry call returns
\* Ok(None) and changes neither the log cursor, the target, nor any field of
\* the session (so the same holds for every further call).
C5_ExhaustedIdempotent ==
    [][(pc = "open" /\ cur_entry = nr_entries) =>
         /\ call'.res = "None"
         /\ UNCHANGED <<log_file, replay_file, dev_discard, flags, nr_entries,
                        sector_size, cur_entry, max_zero_size, cur_pos, pc, trace>>]_vars

\* two calls in a row on an exhausted log that recorded entries
C5_Witness ==
    /\ pc = "open" /\ nr_entries > 0 /\ cur_entry = nr_entries
    /\ call.res = "None" /\ call.prev_res = "None"

\* C10: the target is never read.
C10_TargetNeverRead == trace.replay_reads = 0

(* ------------------------------------------------------------------ *)
(* src/main.rs: the stop policy and the driving loop                   *)
(* ------------------------------------------------------------------ *)
\* should_stop without the test of the checkpoint name
should_stop_AnyMark(entry, stop_flags, mark) ==
    IF BitAnd(entry.flags, stop_flags) > 0 THEN 1 ELSE 0

\* should_stop; entry.cmd is the checkpoint name the entry carries
should_stop(entry, stop_flags, mark) ==
    LET check_mark == BitAnd(stop_flags, LOG_MARK_FLAG)
    IN IF BitAnd(entry.flags, stop_flags) > 0
       THEN IF check_mark <= 0 THEN 1
            ELSE IF BitAnd(entry.flags, LOG_MARK_FLAG) > 0 /\ entry.cmd = mark THEN 1
            ELSE 0
       ELSE 0

\* the count test of the loop, reached one entry late
LimitReached_Late(limit, n) == limit > 0 /\ n = limit + 1

\* the count test of the loop
LimitReached(limit, n) == limit > 0 /\ n = limit

Names == {"ckpt1", "ckpt2"}

WithCmd(entry, cmd) ==
    [sector |-> entry.sector, nr_sectors |-> entry.nr_sectors, flags |-> entry.flags,
     data_len |-> entry.data_len, cmd |-> cmd]

\* the targets the driver is run on: sectors of the size of an entry header
MainTargets ==
    { <<>> , SuperBytes(WRITE_LOG_MAGIC, WRITE_LOG_VERSION, 1, LogSectorSize) \o TargetTail }
    \cup { SuperBytes(OtherMagic, WRITE_LOG_VERSION, n, EntrySize) \o TargetTail :
             n \in 0..MaxEntries }

InitMain ==
    /\ InitLog
    /\ replay_file.data \in MainTargets
    /\ ~dev_discard
    /\ run_limit \in 0..MaxLimit
    /\ end_mark \in {"", "ckpt1"}
    /\ num_entries = 0
    /\ main_pc = "args"
    /\ stop_reason = ""
    /\ dis = NoDis /\ ss = NoSs /\ fts = NoFts /\ cat = NoCat

\* main up to the loop: the arguments (end-mark is unwrapped) and Log::open
MainOpen ==
    /\ main_pc = "args"
    /\ IF end_mark = ""
       THEN /\ main_pc' = "panic"
            /\ UNCHANGED logVars
       ELSE /\ \E read_ok \in BOOLEAN : DoOpen(read_ok)
            /\ main_pc' = IF pc' = "open" THEN "loop" ELSE "err"
    /\ UNCHANGED <<run_limit, end_mark, num_entries, stop_reason, dis, ss, fts, cat>>

\* one iteration of the while-let loop of main; stop_flags is LOG_MARK_FLAG
MainLoop ==
    /\ main_pc = "loop"
    /\ LET r == replay_next_entry(Self, TRUE)
       IN /\ DoReplay(TRUE, r)
          /\ \E cmd \in Names :
               LET n == num_entries + 1
                   stop == should_stop(WithCmd(r.entry, cmd), LOG_MARK_FLAG, end_mark) > 0
               IN IF r.res = "Some"
                  THEN /\ num_entries' = n
                       /\ main_pc' = IF LimitReached(run_limit, n) \/ stop
                                     THEN "done" ELSE "loop"
                       /\ stop_reason' = IF LimitReached(run_limit, n) THEN "limit"
                                         ELSE IF stop THEN "mark" ELSE ""
                  ELSE /\ num_entries' = num_entries
                       /\ main_pc' = IF r.res = "None" THEN "done"
                                     ELSE IF r.res = "Err" THEN "panic" ELSE "hang"
                       /\ stop_reason' = IF r.res = "None" THEN "none" ELSE ""
    /\ UNCHANGED <<run_limit, end_mark, dis, ss, fts, cat>>

NextMain == MainOpen \/ MainLoop

SpecMain == InitMain /\ [][NextMain]_vars

\* C9: with a limit N > 0 the loop has been left as soon as N entries were
\* replayed, so never more than N entries are counted or consumed; and the
\* loop is left because of the count only with N > 0 and exactly N entries.
C9_LimitStops ==
    /\ run_limit > 0 => /\ num_entries <= run_limit
                        /\ cur_entry <= run_limit
                        /\ (num_entries = run_limit => main_pc # "loop")
    /\ stop_reason = "limit" => (run_limit > 0 /\ num_entries = run_limit)
    /\ run_limit = 0 => stop_reason # "limit"

\* the loop left by the count after more than one entry, and a run without
\* limit that replayed as many entries
C9_Witness ==
    /\ stop_reason = "limit" /\ run_limit = MaxLimit /\ num_entries = MaxLimit
    /\ cur_entry = MaxLimit /\ main_pc = "done"

C9_WitnessUnbounded ==
    run_limit = 0 /\ num_entries = MaxEntries /\ stop_reason = "none"

(* ------------------------------------------------------------------ *)
(* should_stop on every flag word, stop mask and pair of names         *)
(* ------------------------------------------------------------------ *)
FlagWords == 0..MaxFlags

InitStop ==
    /\ log_file = [data |-> LogImage(<<>>), pos |-> 0]
    /\ replay_file = [data |-> <<>>, pos |-> 0]
    /\ dev_discard = FALSE
    /\ flags = 0 /\ nr_entries = 0 /\ sector_size = 0 /\ cur_entry = 0
    /\ max_zero_size = 0 /\ cur_pos = 0
    /\ pc = "start" /\ open_err = ""
    /\ log_super = LogWriteSuper_from(Zeros(SuperSize))
    /\ trace = NoTrace
    /\ call = NoCall
    /\ IdleMain
    /\ dis = NoDis
    /\ fts = NoFts /\ cat = NoCat
    /\ ss \in { [pc |-> "in", flags |-> f, cmd |-> c, stop_flags |-> sf, mark |-> m, ret |-> 0] :
                  f \in FlagWords, c \in Names, sf \in FlagWords, m \in Names }

ShouldStop ==
    /\ ss.pc = "in"
    /\ ss' = [ss EXCEPT !.pc = "out",
                        !.ret = should_stop(WithCmd([LogWriteEntry_default EXCEPT !.flags = ss.flags],
                                                    ss.cmd),
                                            ss.stop_flags, ss.mark)]
    /\ UNCHANGED <<logVars, mainVars, dis, fts, cat>>

NextStop == ShouldStop

SpecStop == InitStop /\ [][NextStop]_vars

\* bit b is set in word w
HasBit(w, b) == (w \div b) % 2 = 1
\* the two words share a set bit
Intersect(a, b) == \E k \in {1, 2, 4, 8, 16, 32} : HasBit(a, k) /\ HasBit(b, k)

\* C8: should_stop continues when the entry's flags and the stop mask do not
\* intersect; stops on any intersection when the mask has no MARK; and with
\* MARK in the mask a MARK entry stops exactly when its name is the mark.
C8_StopPolicy ==
    ss.pc = "out" =>
        /\ ~Intersect(ss.flags, ss.stop_flags) => ss.ret = 0
        /\ (Intersect(ss.flags, ss.stop_flags) /\ ~HasBit(ss.stop_flags, LOG_MARK_FLAG))
               => ss.ret > 0
        /\ (HasBit(ss.stop_flags, LOG_MARK_FLAG) /\ HasBit(ss.flags, LOG_MARK_FLAG))
               => (ss.ret > 0 <=> ss.cmd = ss.mark)

\* the examples of the claim: mask MARK, a MARK entry named as the mark or not
C8_Witness ==
    /\ ss.pc = "out" /\ ss.stop_flags = LOG_MARK_FLAG /\ ss.flags = LOG_MARK_FLAG
    /\ ss.cmd = "ckpt2" /\ ss.mark = "ckpt1" /\ ss.ret = 0

C8_WitnessStop ==
    /\ ss.pc = "out" /\ ss.stop_flags = LOG_MARK_FLAG /\ ss.flags = LOG_MARK_FLAG
    /\ ss.cmd = "ckpt1" /\ ss.mark = "ckpt1" /\ ss.ret = 1

(* ------------------------------------------------------------------ *)
(* Log::discard called on a session, one loop iteration at a time      *)
(* ------------------------------------------------------------------ *)
\* sector sizes that make chunks around max_zero_size and max_chunk
DiscardSectorSizes ==
    {0, 8, DefaultMaxZeroSize, DefaultMaxZeroSize + 8, (max_chunk \div 2) + 8}

\* highest sector count of a discarded entry
MaxDiscardSectors == 2

DiscardEntries ==
    { [sector |-> s, nr_sectors |-> n, flags |-> LOG_DISCARD_FLAG, data_len |-> 0] :
        s \in Sectors, n \in 0..MaxDiscardSectors }

DiscardTargets ==
    { SuperBytes(OtherMagic, WRITE_LOG_VERSION, 1, s) \o TargetTail : s \in DiscardSectorSizes }

InitDiscard ==
    /\ log_file = [data |-> LogImage(<<>>), pos |-> 0]
    /\ replay_file \in { [data |-> d, pos |-> 0] : d \in DiscardTargets }
    /\ dev_discard \in BOOLEAN
    /\ flags = 0 /\ nr_entries = 0 /\ sector_size = 0 /\ cur_entry = 0
    /\ max_zero_size = 0 /\ cur_pos = 0
    /\ pc = "start" /\ open_err = ""
    /\ log_super = LogWriteSuper_from(Zeros(SuperSize))
    /\ trace = NoTrace
    /\ call = NoCall
    /\ IdleMain
    /\ dis = NoDis /\ ss = NoSs /\ fts = NoFts /\ cat = NoCat

\* discard up to its loop: the range of the entry and the early return
DiscardEnter ==
    /\ pc = "open"
    /\ dis.pc \in {"idle", "returned"}
    /\ \E entry \in DiscardEntries :
         LET start == discard_start(Self, entry)
             size == discard_size(Self, entry)
         IN dis' = [NoDis EXCEPT !.start = start, !.size = size,
                       !.pc = IF BitAnd(flags, LOG_DISCARD_FLAG) # 0 \/ size <= 0
                              THEN "returned" ELSE "loop"]
    /\ UNCHANGED <<logVars, mainVars, ss, fts, cat>>

\* one iteration of the loop of discard
DiscardIter ==
    /\ pc = "open"
    /\ dis.pc = "loop"
    /\ dis.iter < MaxIter
    /\ LET c == discard_chunk(Self, dis.start, dis.size)
       IN /\ replay_file' = c.self.replay_file
          /\ flags' = c.self.flags
          /\ trace' = c.self.trace
          /\ dis' = [dis EXCEPT !.pc = IF c.bail THEN "bailed" ELSE "loop",
                                !.iter = @ + 1, !.len = c.len, !.ret = c.ret,
                                !.native = c.native, !.zeroed = c.zeroed,
                                !.before = replay_file.data,
                                !.prev = IF dis.iter > 0 THEN <<dis.start, dis.len>> ELSE <<>>]
    /\ UNCHANGED <<log_file, dev_discard, nr_entries, sector_size, cur_entry,
                   max_zero_size, cur_pos, pc, open_err, log_super, call, mainVars, ss, fts, cat>>

NextDiscard == Open \/ DiscardEnter \/ DiscardIter

SpecDiscard == InitDiscard /\ [][NextDiscard]_vars

NotSupp(fl) == BitAnd(fl, LOG_DISCARD_NOT_SUPP) > 0

C7_OversizeZeroFillFails ==
    (dis.iter > 0 /\ dis.zeroed /\ dis.len > max_zero_size) =>
        /\ dis.pc = "bailed"
        /\ replay_file.data = dis.before

\* C11: the chunks discard processes are consecutive and cover the range
\* exactly: each chunk starts where the chunk before it ended, and the loop
\* goes on after a chunk only while part of the range is left beyond it.
C11_ChunksCoverRange ==
    dis.iter > 0 =>
        /\ dis.prev # <<>> => dis.start = dis.prev[1] + dis.prev[2]
        /\ dis.pc = "loop" => dis.len < dis.size

\* C12: a zero_range that failed (a positioned write that wrote fewer bytes
\* than asked) ends the call of discard with an error.
C12_ZeroFillFailureIsError ==
    (dis.iter > 0 /\ dis.zeroed /\ dis.ret < 0) => dis.pc = "bailed"

\* C13: when the native discard of a chunk is refused, the call does not fail,
\* LOG_DISCARD_NOT_SUPP is set and the same chunk (of a length zero_range
\* accepts) is zero-filled in the same iteration.
C13_UnsupportedFallsThrough ==
    (dis.iter > 0 /\ dis.native /\ ~dev_discard /\ dis.len <= max_zero_size) =>
        /\ NotSupp(flags)
        /\ dis.zeroed
        /\ dis.pc # "bailed"
        /\ \A i \in 0..(Len(replay_file.data) - 1) :
              (i >= dis.start /\ i < dis.start + dis.len) => ByteAt(replay_file.data, i) = 0

(* ------------------------------------------------------------------ *)
(* The log stream cursor across a call of replay_next_entry            *)
(* ------------------------------------------------------------------ *)
\* the bytes the last call consumed from the log stream
Consumed == log_file.pos - call.log_pos

\* the bytes the log stream held at the cursor when the last call began
Available == Len(log_file.data) - call.log_pos

\* C14: a successful scanning step (read_data = false) on an entry without
\* LOG_DISCARD_FLAG moves the log cursor by the header and the payload,
\* 32 + nr_sectors * sector_size bytes.
C14_ScanSkipsPayload ==
    (Returned /\ ~call.read_data /\ ~IsDiscard(call.entry)) =>
        Consumed = EntrySize + CallSize

\* C15: a step on an entry without LOG_DISCARD_FLAG whose byte length is zero
\* returns the entry, leaves the target as it was and consumes the 32 bytes
\* of the header.
C15_ZeroLengthNoOp ==
    (pc = "open" /\ call.res \in {"Some", "Err"} /\ call.entry # LogWriteEntry_default
       /\ ~IsDiscard(call.entry) /\ CallSize = 0) =>
        /\ call.res = "Some"
        /\ replay_file.data = call.replay_data
        /\ Consumed = EntrySize

\* C16: with entries left, the call fails iff fewer than 32 bytes are left in
\* the log stream at the cursor, whatever sector_size and read_data are.
C16_HeaderReadIs32Bytes ==
    (pc = "open" /\ call.res # "" /\ ~Exhausted(call.cur_entry, nr_entries)) =>
        (call.res = "Err" <=> Available < EntrySize)

(* ------------------------------------------------------------------ *)
(* The entries a log records, read off its bytes by the on-disk format *)
(* ------------------------------------------------------------------ *)
\* the header of the log stream
LogHeader == LogWriteSuper_from(SubSeq(log_file.data, 1, SuperSize))

\* the entries recorded from byte offset off on, k of them: a 32-byte header,
\* then nr_sectors sectors of payload unless the entry is a discard
RECURSIVE RecordedFrom(_, _)
RecordedFrom(off, k) ==
    IF k = 0 THEN <<>>
    ELSE LET e == LogWriteEntry_from(SubSeq(log_file.data, off + 1, off + EntrySize))
             paylen == IF IsDiscard(e) THEN 0 ELSE e.nr_sectors * LogHeader.sector_size
         IN <<e>> \o RecordedFrom(off + EntrySize + paylen, k - 1)

RecordedEntries == RecordedFrom(SuperSize, LogHeader.nr_entries)

\* the session runs with the entry count and sector size of its log
WellFormedSession ==
    /\ pc = "open"
    /\ nr_entries = LogHeader.nr_entries
    /\ sector_size = LogHeader.sector_size

\* C17: on a well-formed log of n entries no call fails, the call made after
\* i entries were returned returns the (i+1)-th recorded entry, and None is
\* returned only after all n.
C17_EntriesInLogOrder ==
    (WellFormedSession /\ call.res # "") =>
        /\ call.res # "Err"
        /\ call.res = "Some" => call.entry = RecordedEntries[call.cur_entry + 1]
        /\ call.res = "None" => call.cur_entry = Len(RecordedEntries)

\* C18: in an open session 0 <= cur_entry <= nr_entries; a call that decodes
\* an entry header adds 1 to cur_entry, a call that returns None or fails on
\* the header read leaves it; nr_entries, sector_size and max_zero_size stay
\* as open set them.
C18_CursorAccounting ==
    [][ /\ pc' = "open" => (cur_entry' >= 0 /\ cur_entry' <= nr_entries')
        /\ pc = "open" =>
              /\ call'.res \in {"Some", "hang"} => cur_entry' = cur_entry + 1
              /\ call'.res \in {"None", "Err"} => cur_entry' = cur_entry
              /\ nr_entries' = nr_entries
              /\ sector_size' = sector_size
              /\ max_zero_size' = max_zero_size ]_vars

\* two entries were decoded and returned, and none is left
C18_Witness ==
    /\ Returned
    /\ cur_entry = call.cur_entry + 1
    /\ cur_entry >= 2
    /\ cur_entry = nr_entries

(* ------------------------------------------------------------------ *)
(* src/util.rs: strncat. A String is the sequence of its UTF-8 bytes   *)
(* ------------------------------------------------------------------ *)
\* str::is_char_boundary: the start, the end, or a byte that is not a
\* continuation byte (10xxxxxx)
is_char_boundary(str, index) ==
    IF index = 0 THEN TRUE
    ELSE IF index >= Len(str) THEN index = Len(str)
    ELSE str[index + 1] < 128 \/ str[index + 1] >= 192

\* &src[..n]: the first n bytes, or a panic when n is inside a character
slice_to(src, n) ==
    IF is_char_boundary(src, n)
    THEN [res |-> "ok", str |-> SubSeq(src, 1, n)]
    ELSE [res |-> "panic", str |-> <<>>]

strncat(dest, src, n) ==
    IF n < Len(src)
    THEN LET sl == slice_to(src, n)
         IN IF sl.res = "ok"
            THEN [res |-> "ok", dest |-> dest \o sl.str]
            ELSE [res |-> "panic", dest |-> dest]
    ELSE [res |-> "ok", dest |-> dest \o src]

(* ------------------------------------------------------------------ *)
(* src/log_writes.rs: entry_flags_to_str                               *)
(* ------------------------------------------------------------------ *)
LOG_FLAGS_BUF_SIZE == 128

Str_PIPE == <<124>>
Str_FLUSH == <<70, 76, 85, 83, 72>>
Str_FUA == <<70, 85, 65>>
Str_DISCARD == <<68, 73, 83, 67, 65, 82, 68>>
Str_MARK == <<77, 65, 82, 75>>
Str_METADATA == <<77, 69, 84, 65, 68, 65, 84, 65>>
Str_None == <<78, 111, 110, 101>>
\* the text of the println! format before its argument: "UNKNOWN."
Str_UNKNOWN == <<85, 78, 75, 78, 79, 87, 78, 46>>

log_flags_table ==
    << [flags |-> LOG_FLUSH_FLAG, str |-> Str_FLUSH],
       [flags |-> LOG_FUA_FLAG, str |-> Str_FUA],
       [flags |-> LOG_DISCARD_FLAG, str |-> Str_DISCARD],
       [flags |-> LOG_MARK_FLAG, str |-> Str_MARK],
       [flags |-> LOG_METADATA_FLAG, str |-> Str_METADATA] >>

\* flags &= !mask
BitClear(a, mask) == a - BitAnd(a, mask)

\* util::strncat(buf, s, LOG_FLAGS_BUF_SIZE) on the ASCII strings of the table
buf_cat(buf, str) == strncat(buf, str, LOG_FLAGS_BUF_SIZE).dest

\* the for loop over the table, on st = [flags, empty, buf]
RECURSIVE flags_loop(_, _)
flags_loop(st, tbl) ==
    IF tbl = <<>> THEN st
    ELSE LET i == Head(tbl)
             sep == IF ~st.empty THEN buf_cat(st.buf, Str_PIPE) ELSE st.buf
         IN flags_loop(IF BitAnd(st.flags, i.flags) > 0
                       THEN [flags |-> BitClear(st.flags, i.flags), empty |-> FALSE,
                             buf |-> buf_cat(sep, i.str)]
                       ELSE st,
                       Tail(tbl))

\* the buffer and the lines printed to stdout when the function returns
entry_flags_to_str(flags_in, buf_in) ==
    LET a == flags_loop([flags |-> flags_in, empty |-> TRUE, buf |-> buf_in], log_flags_table)
        sep == IF ~a.empty THEN buf_cat(a.buf, Str_PIPE) ELSE a.buf
        left_len == LOG_FLAGS_BUF_SIZE - min(Len(sep), LOG_FLAGS_BUF_SIZE)
        b == IF a.flags > 0
             THEN [empty |-> FALSE, buf |-> sep,
                   stdout |-> IF left_len > 0
                              THEN << [text |-> Str_UNKNOWN, arg |-> a.flags] >>
                              ELSE <<>>]
             ELSE [empty |-> a.empty, buf |-> a.buf, stdout |-> <<>>]
    IN IF b.empty
       THEN [buf |-> Str_None, stdout |-> b.stdout]
       ELSE [buf |-> b.buf, stdout |-> b.stdout]

\* the flag words rendered: the five known bits and one bit beyond them
MaxFlagWord == 63

\* a session that is not opened
IdleSession ==
    /\ log_file = [data |-> LogImage(<<>>), pos |-> 0]
    /\ replay_file = [data |-> <<>>, pos |-> 0]
    /\ dev_discard = FALSE
    /\ flags = 0 /\ nr_entries = 0 /\ sector_size = 0 /\ cur_entry = 0
    /\ max_zero_size = 0 /\ cur_pos = 0
    /\ pc = "start" /\ open_err = ""
    /\ log_super = LogWriteSuper_from(Zeros(SuperSize))
    /\ trace = NoTrace
    /\ call = NoCall
    /\ IdleMain
    /\ dis = NoDis /\ ss = NoSs

InitFlags ==
    /\ IdleSession
    /\ cat = NoCat
    /\ fts \in { [NoFts EXCEPT !.pc = "in", !.flags = f, !.buf0 = b, !.buf = b] :
                   f \in 0..MaxFlagWord, b \in {<<>>, Str_PIPE} }

EntryFlagsToStr ==
    /\ fts.pc = "in"
    /\ LET r == entry_flags_to_str(fts.flags, fts.buf)
       IN fts' = [fts EXCEPT !.pc = "done", !.buf = r.buf, !.stdout = r.stdout]
    /\ UNCHANGED <<logVars, mainVars, dis, ss, cat>>

NextFlags == EntryFlagsToStr

SpecFlags == InitFlags /\ [][NextFlags]_vars

\* the known bits, and the bits of a word outside them
KnownBits ==
    LOG_FLUSH_FLAG + LOG_FUA_FLAG + LOG_DISCARD_FLAG + LOG_MARK_FLAG + LOG_METADATA_FLAG
UnknownBits(f) == f - BitAnd(f, KnownBits)

\* the names of the set known bits of f among the table entries k.., joined by "|"
RECURSIVE JoinedNames(_, _, _)
JoinedNames(f, k, first) ==
    IF k > Len(log_flags_table) THEN <<>>
    ELSE IF BitAnd(f, log_flags_table[k].flags) = 0 THEN JoinedNames(f, k + 1, first)
    ELSE (IF first THEN <<>> ELSE Str_PIPE) \o log_flags_table[k].str
           \o JoinedNames(f, k + 1, FALSE)

Contains(str, sub) ==
    \E i \in 0..(Len(str) - Len(sub)) : SubSeq(str, i + 1, i + Len(sub)) = sub

\* C19: from an empty buffer, flags = 0 renders as "None", known bits as
\* their names in table order joined by "|", and a word with a bit outside
\* the known ones leaves a non-empty buffer that holds an unknown marker;
\* the buffer is never longer than LOG_FLAGS_BUF_SIZE.
C19_FlagsRendered ==
    (fts.pc = "done" /\ fts.buf0 = <<>>) =>
        /\ fts.flags = 0 => fts.buf = Str_None
        /\ (fts.flags # 0 /\ UnknownBits(fts.flags) = 0) =>
              fts.buf = JoinedNames(fts.flags, 1, TRUE)
        /\ UnknownBits(fts.flags) # 0 =>
              (fts.buf # <<>> /\ Contains(fts.buf, Str_UNKNOWN))
        /\ Len(fts.buf) <= LOG_FLAGS_BUF_SIZE

(* ------------------------------------------------------------------ *)
(* strncat on its own                                                  *)
(* ------------------------------------------------------------------ *)
\* the longest src, in characters
MaxChars == 2

\* the characters of src: "a", and the two bytes of U+00E9
Chars == { <<97>>, <<195, 169>> }

RECURSIVE StringsOf(_)
StringsOf(k) ==
    IF k = 0 THEN { <<>> }
    ELSE LET shorter == StringsOf(k - 1)
         IN shorter \cup { str \o c : str \in shorter, c \in Chars }

InitStrncat ==
    /\ IdleSession
    /\ fts = NoFts
    /\ cat \in { [NoCat EXCEPT !.pc = "in", !.dest = d, !.src = str, !.n = n] :
                   d \in { <<>>, Str_FUA }, str \in StringsOf(MaxChars),
                   n \in 0..(2 * MaxChars + 1) }

Strncat ==
    /\ cat.pc = "in"
    /\ LET r == strncat(cat.dest, cat.src, cat.n)
       IN cat' = [cat EXCEPT !.pc = "done", !.res = r.res, !.out = r.dest]
    /\ UNCHANGED <<logVars, mainVars, dis, ss, fts>>

NextStrncat == Strncat

SpecStrncat == InitStrncat /\ [][NextStrncat]_vars

\* C20: strncat returns, and dest is then its old contents followed by the
\* first min(n, len(src)) bytes of src.
C20_AppendsPrefix ==
    cat.pc = "done" =>
        /\ cat.res = "ok"
        /\ cat.out = cat.dest \o SubSeq(cat.src, 1, min(cat.n, Len(cat.src)))

====
